---- MODULE Spec2Model ----
(***************************************************************************)
(* Team Signal Analytics Engine of teamIQ: the task allocation engine      *)
(* (services/task_allocation.py), the sentiment risk classification        *)
(* (services/sentiment_analysis.py and the two per-user sentiment route    *)
(* handlers) and the skill scoring (services/skill_service.py,             *)
(* services/skill_analytics.py).                                           *)
(*                                                                         *)
(* Python floats are modelled as exact rationals.  A score of the          *)
(* allocation engine is an integer number of 1/Scale units; Scale is       *)
(* chosen so that every quotient the engine forms is exact.                *)
(***************************************************************************)
EXTENDS Integers, Sequences, FiniteSets, TLC

\* ------------------------------------------------------------------ bounds
\* Longest task list and largest roster of the mixed inputs.
MaxTasks == 2
MaxRoster == 2
\* Largest roster of the uniform-team inputs (identical members and tasks).
MaxTeam == 4
\* Longest task list handed to a single-member roster.
MaxLongTasks == 13

\* ------------------------------------------------------------- arithmetic
Scale == 2520 * 600

Min(a, b) == IF a <= b THEN a ELSE b
Max(a, b) == IF a >= b THEN a ELSE b

RECURSIVE SumSeq(_)
SumSeq(s) == IF s = <<>> THEN 0 ELSE Head(s) + SumSeq(Tail(s))

RECURSIVE SumOver(_, _)
\* Sum of f[x] over the finite set S, S a subset of DOMAIN f.
SumOver(f, S) ==
    IF S = {} THEN 0
    ELSE LET x == CHOOSE y \in S : TRUE IN f[x] + SumOver(f, S \ {x})

\* ---------------------------------------------------------- program data
Skills == {"Python", "SQL"}

\* skill_keywords of _infer_task_requirements, restricted to Skills.
skill_keywords ==
    [Python |-> {"python", "django", "flask", "fastapi"},
     SQL |-> {"sql", "database", "query", "postgresql", "mysql"}]

\* allocation_weights, in tenths.
W_skill_match == 4
W_workload_balance == 2
W_growth_opportunity == 2

\* np.random.randint(30, 90) draws 30..89; the model samples the range.
LoadValues == {30, 89}

\* Task texts, as the set of keywords that occur in title + description.
TaskTexts ==
    { {},
      {"python"},
      {"python", "django", "flask", "fastapi", "sql", "database"} }

\* proficiency_level rows of team_skills, per member.
Profiles ==
    { [Python |-> 0, SQL |-> 0],
      [Python |-> 2, SQL |-> 1],
      [Python |-> 6, SQL |-> 0] }

None == [member_id |-> 0]

VARIABLES
    tasks,                      \* input: the task list
    team_members,               \* input: the roster, a sequence of member ids
    team_skills,                \* input: member id -> skill -> proficiency_level
    call,                       \* 1: the route's allocate_tasks, 2: optimize_team_allocation
    pc,
    idx,                        \* loop index of the running loop
    member_workloads,           \* member id -> current_load of this call
    individual_recommendations, \* the list allocate_tasks is building / returned
    route_recommendations,      \* "recommendations" of the /allocate response
    member_task_counts,
    optimized,
    team_metrics,
    \* sentiment analysis of one user
    observations,               \* input: per-message analysis results, oldest first
    timestamps_ok,              \* input: every communication timestamp parses
    api_rows,                   \* input: the user's stored SentimentAnalysis rows
    risk_reports,               \* the per-user reports returned so far
    \* skill scoring of one (user, skill) pair
    user_skill,                 \* input: the UserSkill row and its user
    contribution_data,          \* input: github_data and jira_data of the analytics
    skill_scores,               \* the scores returned so far
    route_status,               \* outcome of GET /user/{user_id}/skills
    skill_levels,               \* input: a skill's level over `days` and over 2 * `days`
    progression,                \* trend returned by GET /user/{user_id}/progression
    \* analyze_message_sentiment of one message, within a batch
    message,                    \* input: the message, as its keyword counts
    response,                   \* what the classifier call produced
    msg_pc,
    observation,                \* the dict returned for the message
    batch_left,                 \* messages of the batch still to analyse
    \* analyze_team_sentiment
    team_communications,        \* input: the users' communications, by first appearance
    team_report,                \* the returned team analysis
    \* concurrent _optimize_workload_balance calls on the shared engine
    runs,                       \* run -> its arguments, position and locals
    run_task_counts             \* scope -> the member_task_counts dict living there

allocVars == <<tasks, team_members, team_skills, call, pc, idx, member_workloads,
               individual_recommendations, route_recommendations,
               member_task_counts, optimized, team_metrics>>

riskVars == <<observations, timestamps_ok, api_rows, risk_reports>>

skillVars == <<user_skill, contribution_data, skill_scores, route_status,
              skill_levels, progression>>

messageVars == <<message, response, msg_pc, observation, batch_left>>

teamVars == <<team_communications, team_report>>

runVars == <<runs, run_task_counts>>

otherThanAlloc == <<riskVars, skillVars, messageVars, teamVars, runVars>>
otherThanRisk == <<allocVars, skillVars, messageVars, teamVars, runVars>>
otherThanSkill == <<allocVars, riskVars, messageVars, teamVars, runVars>>
otherThanMessage == <<allocVars, riskVars, skillVars, teamVars, runVars>>
otherThanTeam == <<allocVars, riskVars, skillVars, messageVars, runVars>>
otherThanRuns == <<allocVars, riskVars, skillVars, messageVars, teamVars>>

vars == <<allocVars, riskVars, skillVars, messageVars, teamVars, runVars>>

\* ------------------------------------------------- task_allocation.py
\* _infer_task_requirements: skill -> min(5, max(1, hits)) for skills with a hit.
InferTaskRequirements(task) ==
    LET score(s) == Cardinality(skill_keywords[s] \cap task.text)
        hit == {s \in Skills : score(s) > 0}
    IN [s \in hit |-> Min(5, Max(1, score(s)))]

\* _create_member_skill_matrix: every roster member gets a row, 0 by default.
CreateMemberSkillMatrix(members, skills) ==
    LET ids == {members[k] : k \in DOMAIN members}
    IN [m \in ids |-> [s \in Skills |-> IF m \in DOMAIN skills THEN skills[m][s] ELSE 0]]

\* match_score of one requirement, in sixtieths.
MatchScore(member_level, required_level) ==
    IF member_level >= required_level THEN 60
    ELSE Max(0, (60 * member_level) \div required_level)

\* Mutant of _calculate_skill_match: the mean of the matches without the
\* required_level weights.
CalculateSkillMatch_Unweighted(task_requirements, member_skills) ==
    IF DOMAIN task_requirements = {} THEN Scale \div 2
    ELSE LET R == DOMAIN task_requirements
             total_match ==
                 SumOver([s \in R |->
                     MatchScore(member_skills[s], task_requirements[s])], R)
         IN (total_match * (Scale \div 60)) \div Cardinality(R)

\* _calculate_skill_match, in 1/Scale units.
CalculateSkillMatch(task_requirements, member_skills) ==
    IF DOMAIN task_requirements = {} THEN Scale \div 2
    ELSE LET R == DOMAIN task_requirements
             total_match ==
                 SumOver([s \in R |->
                     MatchScore(member_skills[s], task_requirements[s])
                         * task_requirements[s]], R)
             total_weight == SumOver(task_requirements, R)
         IN IF total_weight > 0
            THEN (total_match * (Scale \div 60)) \div total_weight
            ELSE Scale \div 2

\* growth contribution of one requirement, in tenths.
GrowthOf(member_level, required_level) ==
    IF member_level = 0 THEN 8
    ELSE IF member_level < required_level
         THEN Min(6, 5 * (required_level - member_level))
         ELSE 1

\* _calculate_growth_opportunity, in 1/Scale units.
CalculateGrowthOpportunity(task_requirements, member_skills) ==
    IF DOMAIN task_requirements = {} THEN 0
    ELSE LET R == DOMAIN task_requirements
             growth_score ==
                 SumOver([s \in R |->
                     GrowthOf(member_skills[s], task_requirements[s])], R)
         IN (growth_score * (Scale \div 10)) \div Cardinality(R)

\* workload_score = max(0, 100 - current_load) / 100, in 1/Scale units.
WorkloadScore(current_load) == Max(0, 100 - current_load) * (Scale \div 100)

\* Mutant of overall_score: the skill match counted against the candidate.
OverallScore_SkillPenalized(skill_match, workload_score, growth_score) ==
    ((Scale - skill_match) * W_skill_match
     + workload_score * W_workload_balance
     + growth_score * W_growth_opportunity) \div 10

\* overall_score: the weighted sum of the three computed factors.
OverallScore(skill_match, workload_score, growth_score) ==
    (skill_match * W_skill_match
     + workload_score * W_workload_balance
     + growth_score * W_growth_opportunity) \div 10

\* _generate_rationale, as the tuple of the phrases chosen.
GenerateRationale(skill_match, workload_score, growth_score) ==
    << IF 10 * skill_match > 8 * Scale THEN "Strong skill match"
       ELSE IF 10 * skill_match > 6 * Scale THEN "Good skill match"
       ELSE "Skill development opportunity",
       IF 10 * workload_score > 7 * Scale THEN "low current workload"
       ELSE IF 10 * workload_score > 4 * Scale THEN "moderate workload"
       ELSE "high workload",
       IF 10 * growth_score > 6 * Scale THEN "excellent growth opportunity"
       ELSE IF 10 * growth_score > 3 * Scale THEN "some growth potential"
       ELSE "" >>

\* One candidate entry of _recommend_assignee's member loop.
Candidate(member_id, task_requirements, matrix, workloads) ==
    LET row == IF member_id \in DOMAIN matrix THEN matrix[member_id]
               ELSE [s \in Skills |-> 0]
        skill_match == CalculateSkillMatch(task_requirements, row)
        workload_score ==
            WorkloadScore(IF member_id \in DOMAIN workloads
                          THEN workloads[member_id] ELSE 100)
        growth_score == CalculateGrowthOpportunity(task_requirements, row)
    IN [member_id |-> member_id,
        overall_score |-> OverallScore(skill_match, workload_score, growth_score),
        skill_match |-> skill_match,
        workload_score |-> workload_score,
        growth_score |-> growth_score,
        rationale |-> GenerateRationale(skill_match, workload_score, growth_score)]

\* Mutant of the sort: reverse=True forgotten, ascending and stable.
SortByOverallScore_Ascending(cands) ==
    LET n == Len(cands)
        rank(j) == Cardinality({k \in 1..n : cands[k].overall_score < cands[j].overall_score})
                   + Cardinality({k \in 1..(j - 1) : cands[k].overall_score = cands[j].overall_score})
                   + 1
    IN [p \in 1..n |-> cands[CHOOSE j \in 1..n : rank(j) = p]]

\* list.sort(key=overall_score, reverse=True): descending and stable.
SortByOverallScore(cands) ==
    LET n == Len(cands)
        rank(j) == Cardinality({k \in 1..n : cands[k].overall_score > cands[j].overall_score})
                   + Cardinality({k \in 1..(j - 1) : cands[k].overall_score = cands[j].overall_score})
                   + 1
    IN [p \in 1..n |-> cands[CHOOSE j \in 1..n : rank(j) = p]]

\* Mutant of the cut recommendations[:3]: the whole list returned.
Take_All(s, n) == s

\* s[:n].
Take(s, n) == SubSeq(s, 1, Min(n, Len(s)))

\* _recommend_assignee: <<>> models the None returned for a task without
\* inferred requirements, <<rec>> a returned recommendation.
RecommendAssignee(task, members, matrix, workloads) ==
    LET task_requirements == InferTaskRequirements(task)
    IN IF DOMAIN task_requirements = {} THEN <<>>
       ELSE LET cands == [k \in 1..Len(members) |->
                            Candidate(members[k], task_requirements, matrix, workloads)]
                sorted == SortByOverallScore(cands)
            IN << [task_id |-> task.id,
                   recommendations |-> Take(sorted, 3),
                   suggested_assignee |->
                       IF Len(sorted) > 0 THEN sorted[1] ELSE None] >>

\* load_penalty = current_load * 0.1, in tenths per assigned task.
LoadPenaltyTenths == 1

AdjustedScore(candidate, counts) ==
    LET current_load == IF candidate.member_id \in DOMAIN counts
                        THEN counts[candidate.member_id] ELSE 0
    IN candidate.overall_score - current_load * LoadPenaltyTenths * (Scale \div 10)

RECURSIVE BestAssignee(_, _, _, _)
\* The candidate loop of _optimize_workload_balance from position k on:
\* best = [assignee, score], replaced only by a strictly greater adjusted score.
BestAssignee(cands, k, counts, best) ==
    IF k > Len(cands) THEN best
    ELSE LET adjusted_score == AdjustedScore(cands[k], counts)
         IN BestAssignee(cands, k + 1, counts,
                IF adjusted_score > best.score
                THEN [assignee |-> cands[k], score |-> adjusted_score]
                ELSE best)

\* best_assignee = None, best_score = -1 before the candidate loop.
InitialBest == [assignee |-> None, score |-> 0 - Scale]

\* _calculate_team_metrics: the task counts of the allocation.
CalculateTeamMetrics(allocation, members) ==
    LET ids == {members[k] : k \in DOMAIN members}
        count(m) == Cardinality({k \in DOMAIN allocation :
                                    allocation[k].assigned_to.member_id = m})
        task_counts == {count(m) : m \in ids}
    IN [total_tasks_allocated |-> Len(allocation),
        min_tasks |-> IF ids = {} THEN 0
                      ELSE CHOOSE c \in task_counts : \A d \in task_counts : c <= d,
        max_tasks |-> IF ids = {} THEN 0
                      ELSE CHOOSE c \in task_counts : \A d \in task_counts : c >= d]

\* ------------------------------------------------------------ inputs
MemberIds(members) == {members[k] : k \in DOMAIN members}

Rosters(K) ==
    UNION { {s \in [1..n -> 1..K] : \A a, b \in 1..n : a # b => s[a] # s[b]}
            : n \in 0..K }

TaskKinds ==
    {[text |-> t, assignee_id |-> 0] : t \in TaskTexts}
        \cup {[text |-> {"python"}, assignee_id |-> 1]}

MakeTasks(kinds) ==
    [k \in DOMAIN kinds |->
        [id |-> k, text |-> kinds[k].text, assignee_id |-> kinds[k].assignee_id]]

\* Mixed inputs: any short task list, any small roster in any order.
MixedInputs ==
    /\ \E n \in 0..MaxTasks : \E kinds \in [1..n -> TaskKinds] :
          tasks = MakeTasks(kinds)
    /\ team_members \in Rosters(MaxRoster)
    /\ team_skills \in [1..MaxRoster -> Profiles]
    \* rows of users outside the roster are ignored by the matrix
    /\ \A m \in 1..MaxRoster :
          m \notin MemberIds(team_members) => team_skills[m] = [Python |-> 0, SQL |-> 0]

\* Uniform inputs: M members with the same skills, N >= M identical tasks.
UniformInputs ==
    \E M \in 1..MaxTeam, p \in Profiles, t \in TaskTexts \ {{}} :
      \E N \in {M, M + 1} :
        /\ team_members = [k \in 1..M |-> k]
        /\ team_skills = [m \in 1..M |-> p]
        /\ tasks = MakeTasks([k \in 1..N |-> [text |-> t, assignee_id |-> 0]])

\* Long inputs: one member and a long list of identical tasks.
LongInputs ==
    \E p \in Profiles, t \in TaskTexts \ {{}} :
      \E N \in (MaxLongTasks - 1)..MaxLongTasks :
        /\ team_members = <<1>>
        /\ team_skills = [m \in {1} |-> p]
        /\ tasks = MakeTasks([k \in 1..N |-> [text |-> t, assignee_id |-> 0]])

EmptyMetrics == [total_tasks_allocated |-> 0, min_tasks |-> 0, max_tasks |-> 0]

RiskIdle ==
    /\ observations = <<>>
    /\ timestamps_ok = TRUE
    /\ api_rows = <<>>
    /\ risk_reports = {}

NoUserSkill ==
    [found |-> FALSE, github_username |-> FALSE, github_commits |-> 0,
     code_reviews |-> 0, jira_tickets |-> 0, peer_reviews_score |-> 0]

NoContributionData ==
    [language_skill |-> FALSE, language_commits |-> 0, total_lines |-> 0,
     reviews_given |-> <<>>, projects |-> <<>>]

NoSkillLevels == [current_level |-> 0, previous_level |-> 0]

NoMessage == [is_text |-> TRUE, positive_count |-> 0, negative_count |-> 0,
              blocker_count |-> 0]

NoResponse == [kind |-> "none"]

MessageIdle ==
    /\ message = NoMessage
    /\ response = NoResponse
    /\ msg_pc = "idle"
    /\ observation = <<>>
    /\ batch_left = 0

TeamIdle ==
    /\ team_communications = <<>>
    /\ team_report = <<>>

RunsIdle ==
    /\ runs = <<>>
    /\ run_task_counts = <<>>

SkillIdle ==
    /\ user_skill = NoUserSkill
    /\ contribution_data = NoContributionData
    /\ skill_scores = {}
    /\ route_status = "none"
    /\ skill_levels = NoSkillLevels
    /\ progression = "none"

InitState(first_call) ==
    /\ MixedInputs \/ UniformInputs \/ LongInputs
    /\ RiskIdle
    /\ SkillIdle
    /\ MessageIdle
    /\ TeamIdle
    /\ RunsIdle
    /\ call = first_call
    /\ pc = "allocate"
    /\ idx = 1
    /\ member_workloads = <<>>
    /\ individual_recommendations = <<>>
    /\ route_recommendations = <<>>
    /\ member_task_counts = <<>>
    /\ optimized = <<>>
    /\ team_metrics = EmptyMetrics

\* optimize_team_allocation is called on the engine.
Init == InitState(2)

\* The /allocate route calls allocate_tasks, then optimize_team_allocation.
InitRoute == InitState(1)

\* ----------------------------------------------------------- actions
\* allocate_tasks, up to its task loop: the workloads are drawn at random.
AllocateStart ==
    /\ pc = "allocate"
    /\ member_workloads' \in [MemberIds(team_members) -> LoadValues]
    /\ individual_recommendations' = <<>>
    /\ idx' = 1
    /\ pc' = "recommend"
    /\ UNCHANGED <<tasks, team_members, team_skills, call, route_recommendations,
                   member_task_counts, optimized, team_metrics>>
    /\ UNCHANGED otherThanAlloc

\* One iteration of the task loop of allocate_tasks.
RecommendStep ==
    /\ pc = "recommend"
    /\ idx <= Len(tasks)
    /\ \/ /\ tasks[idx].assignee_id # 0
          /\ UNCHANGED individual_recommendations
       \/ /\ tasks[idx].assignee_id = 0
          /\ individual_recommendations' =
                individual_recommendations \o
                    RecommendAssignee(tasks[idx], team_members,
                        CreateMemberSkillMatrix(team_members, team_skills),
                        member_workloads)
    /\ idx' = idx + 1
    /\ UNCHANGED <<tasks, team_members, team_skills, call, pc, member_workloads,
                   route_recommendations, member_task_counts, optimized,
                   team_metrics>>
    /\ UNCHANGED otherThanAlloc

\* The route's allocate_tasks returns; the route calls optimize_team_allocation.
RouteCall ==
    /\ pc = "recommend"
    /\ idx > Len(tasks)
    /\ call = 1
    /\ route_recommendations' = individual_recommendations
    /\ call' = 2
    /\ pc' = "allocate"
    /\ idx' = 1
    /\ UNCHANGED <<tasks, team_members, team_skills, member_workloads,
                   individual_recommendations, member_task_counts, optimized,
                   team_metrics>>
    /\ UNCHANGED otherThanAlloc

\* allocate_tasks returns into optimize_team_allocation, which enters
\* _optimize_workload_balance with fresh task counts.
AllocateReturn ==
    /\ pc = "recommend"
    /\ idx > Len(tasks)
    /\ call = 2
    /\ member_task_counts' = [m \in MemberIds(team_members) |-> 0]
    /\ optimized' = <<>>
    /\ idx' = 1
    /\ pc' = "optimize"
    /\ UNCHANGED <<tasks, team_members, team_skills, call, member_workloads,
                   individual_recommendations, route_recommendations,
                   team_metrics>>
    /\ UNCHANGED otherThanAlloc

\* One iteration of the recommendation loop of _optimize_workload_balance.
OptimizeStep ==
    /\ pc = "optimize"
    /\ idx <= Len(individual_recommendations)
    /\ LET recommendation == individual_recommendations[idx]
           best == BestAssignee(recommendation.recommendations, 1,
                                member_task_counts, InitialBest)
       IN \/ /\ best.assignee # None
             /\ member_task_counts' =
                   [member_task_counts EXCEPT ![best.assignee.member_id] = @ + 1]
             /\ optimized' = Append(optimized,
                   [task_id |-> recommendation.task_id,
                    assigned_to |-> best.assignee,
                    optimization_score |-> best.score])
          \/ /\ best.assignee = None
             /\ UNCHANGED <<member_task_counts, optimized>>
    /\ idx' = idx + 1
    /\ UNCHANGED <<tasks, team_members, team_skills, call, pc, member_workloads,
                   individual_recommendations, route_recommendations,
                   team_metrics>>
    /\ UNCHANGED otherThanAlloc

\* _optimize_workload_balance returns; optimize_team_allocation adds the metrics.
OptimizeReturn ==
    /\ pc = "optimize"
    /\ idx > Len(individual_recommendations)
    /\ team_metrics' = CalculateTeamMetrics(optimized, team_members)
    /\ pc' = "done"
    /\ UNCHANGED <<tasks, team_members, team_skills, call, idx, member_workloads,
                   individual_recommendations, route_recommendations,
                   member_task_counts, optimized>>
    /\ UNCHANGED otherThanAlloc

Next ==
    \/ AllocateStart
    \/ RecommendStep
    \/ AllocateReturn
    \/ OptimizeStep
    \/ OptimizeReturn

Spec == Init /\ [][Next]_vars

NextRoute == Next \/ RouteCall

SpecRoute == InitRoute /\ [][NextRoute]_vars

\* ------------------------------------------------ sentiment risk level
\* A rational number is [num, den] with den > 0.
Rat(n, d) == [num |-> n, den |-> d]
RatEq(a, b) == a.num * b.den = b.num * a.den
RatLess(a, b) == a.num * b.den < b.num * a.den

\* risk_thresholds of SentimentAnalysisService, in tenths.
RiskThresholdMedium == 6
RiskThresholdHigh == 8
\* The weights of the combined risk score, in tenths.
SentimentRiskWeight == 7
BlockerRiskWeight == 3

\* Mutant of _calculate_risk_level: the "low" threshold (0.3) used for "high".
CalculateRiskLevel_LowThreshold(avg_sentiment, blocker_count, message_count) ==
    LET n == IF message_count > 0 THEN message_count ELSE 1
        b == IF message_count > 0 THEN blocker_count ELSE 0
        risk_num == SentimentRiskWeight * (avg_sentiment.den - avg_sentiment.num) * n
                    + BlockerRiskWeight * b * avg_sentiment.den
        unit == avg_sentiment.den * n
    IN IF risk_num >= 3 * unit THEN "high"
       ELSE IF risk_num >= RiskThresholdMedium * unit THEN "medium"
       ELSE "low"

\* _calculate_risk_level: risk_score = (1 - avg) * 0.7 + blocker_rate * 0.3
\* against the thresholds; risk_num / (10 * unit) is the risk score.
CalculateRiskLevel(avg_sentiment, blocker_count, message_count) ==
    LET n == IF message_count > 0 THEN message_count ELSE 1
        b == IF message_count > 0 THEN blocker_count ELSE 0
        risk_num == SentimentRiskWeight * (avg_sentiment.den - avg_sentiment.num) * n
                    + BlockerRiskWeight * b * avg_sentiment.den
        unit == avg_sentiment.den * n
    IN IF risk_num >= RiskThresholdHigh * unit THEN "high"
       ELSE IF risk_num >= RiskThresholdMedium * unit THEN "medium"
       ELSE "low"

\* The risk score of an observation list lies exactly on a threshold, where
\* the rounding of the floating-point sum decides the level.
OnRiskThreshold(obs) ==
    LET n == Len(obs)
        S == SumSeq([k \in 1..n |-> obs[k].score])
        b == Cardinality({k \in 1..n : obs[k].has_blockers})
        risk_num == SentimentRiskWeight * (100 * n - S) + BlockerRiskWeight * 100 * b
    IN n > 0 /\ risk_num \in {RiskThresholdHigh * 100 * n, RiskThresholdMedium * 100 * n}

\* Mutant of the trend of analyze_user_sentiment_trend: the earlier half
\* against the later half of the series.
ServiceTrend_Halves(scores) ==
    LET n == Len(scores)
        h == n \div 2
    IN IF n > 5
       THEN LET later == SumSeq(SubSeq(scores, n - h + 1, n))
                earlier == SumSeq(SubSeq(scores, 1, h))
            IN IF later > earlier + 10 * h THEN "improving"
               ELSE IF later < earlier - 10 * h THEN "declining"
               ELSE "stable"
       ELSE "stable"

\* The two-window comparison of analyze_user_sentiment_trend: the last five
\* scores against the earlier ones, once there are more than five.
ServiceTrend(scores) ==
    LET n == Len(scores)
    IN IF n > 5
       THEN LET recent == SumSeq(SubSeq(scores, n - 4, n))
                earlier == SumSeq(SubSeq(scores, 1, n - 5))
            IN IF recent * (n - 5) > 5 * earlier + 50 * (n - 5) THEN "improving"
               ELSE IF recent * (n - 5) < 5 * earlier - 50 * (n - 5) THEN "declining"
               ELSE "stable"
       ELSE "stable"

\* _empty_trend_analysis.
EmptyTrendAnalysis ==
    [path |-> "service", message_count |-> 0, average_sentiment |-> Rat(50, 100),
     sentiment_trend |-> "stable", blocker_count |-> 0, blocker_rate |-> Rat(0, 1),
     risk_level |-> "low"]

\* analyze_user_sentiment_trend over the analysed in-window communications.
AnalyzeUserSentimentTrend(obs) ==
    LET n == Len(obs)
        scores == [k \in 1..n |-> obs[k].score]
        blocker_count == Cardinality({k \in 1..n : obs[k].has_blockers})
        avg_sentiment == Rat(SumSeq(scores), 100 * n)
    IN [path |-> "service", message_count |-> n, average_sentiment |-> avg_sentiment,
        sentiment_trend |-> ServiceTrend(scores), blocker_count |-> blocker_count,
        blocker_rate |-> Rat(blocker_count, n),
        risk_level |-> CalculateRiskLevel(avg_sentiment, blocker_count, n)]

\* float(msg.sentiment_score or 0.5): a stored score of 0 reads as 0.5.
StoredScore(score) == IF score = 0 THEN 50 ELSE score

\* Trend of get_user_sentiment_analysis: the halves of the newest-first list,
\* once there are at least ten messages.
RouterTrend(scores) ==
    LET n == Len(scores)
        h == n \div 2
    IN IF n >= 10
       THEN LET recent == SumSeq(SubSeq(scores, 1, h))
                older == SumSeq(SubSeq(scores, h + 1, n))
            IN IF recent * (n - h) * 10 > older * h * 10 + 100 * h * (n - h) THEN "improving"
               ELSE IF recent * (n - h) * 10 < older * h * 10 - 100 * h * (n - h) THEN "declining"
               ELSE "stable"
       ELSE "stable"

\* Risk level of get_user_sentiment_analysis (routers/sentiment.py).
RouterRiskLevel(avg_sentiment, blocker_count) ==
    IF RatLess(avg_sentiment, Rat(30, 100)) \/ blocker_count > 5 THEN "high"
    ELSE IF RatLess(avg_sentiment, Rat(40, 100)) \/ blocker_count > 2 THEN "medium"
    ELSE "low"

\* get_user_sentiment_analysis over the user's messages, newest first.
RouterUserAnalysis(obs) ==
    LET n == Len(obs)
        messages == [k \in 1..n |-> obs[n + 1 - k]]
        sentiment_scores == [k \in 1..n |-> StoredScore(messages[k].score)]
        blocker_count == Cardinality({k \in 1..n : messages[k].has_blockers})
    IN IF n = 0
       THEN [path |-> "router", message_count |-> 0,
             average_sentiment |-> Rat(50, 100), sentiment_trend |-> "stable",
             blocker_count |-> 0, blocker_rate |-> Rat(0, 1), risk_level |-> "low"]
       ELSE LET avg_sentiment == Rat(SumSeq(sentiment_scores), 100 * n)
            IN [path |-> "router", message_count |-> n,
                average_sentiment |-> avg_sentiment,
                sentiment_trend |-> RouterTrend(sentiment_scores),
                blocker_count |-> blocker_count,
                blocker_rate |-> Rat(blocker_count, n),
                risk_level |-> RouterRiskLevel(avg_sentiment, blocker_count)]

\* Risk level of get_user_sentiment_trend (api/sentiment.py), whose stored
\* scores are integers of a -100..100 scale.
ApiRiskLevel(average_sentiment, blockers_count) ==
    IF RatLess(average_sentiment, Rat(-30, 1)) \/ blockers_count > 5 THEN "high"
    ELSE IF RatLess(average_sentiment, Rat(-10, 1)) \/ blockers_count > 2 THEN "medium"
    ELSE "low"

\* Mutant of the trend of get_user_sentiment_trend: at least four daily
\* averages are needed.
ApiTrend_MinFour(scores) ==
    LET n == Len(scores)
        h == n \div 2
    IN IF n >= 4
       THEN LET first == SumSeq(SubSeq(scores, 1, h))
                second == SumSeq(SubSeq(scores, h + 1, n))
            IN IF second * h > first * (n - h) + 10 * h * (n - h) THEN "improving"
               ELSE IF second * h < first * (n - h) - 10 * h * (n - h) THEN "declining"
               ELSE "stable"
       ELSE "stable"

\* Trend of get_user_sentiment_trend over the daily averages; every row of
\* the model is analysed on a day of its own.
ApiTrend(scores) ==
    LET n == Len(scores)
        h == n \div 2
    IN IF n >= 2
       THEN LET first == SumSeq(SubSeq(scores, 1, h))
                second == SumSeq(SubSeq(scores, h + 1, n))
            IN IF second * h > first * (n - h) + 10 * h * (n - h) THEN "improving"
               ELSE IF second * h < first * (n - h) - 10 * h * (n - h) THEN "declining"
               ELSE "stable"
       ELSE "stable"

\* get_user_sentiment_trend over the stored rows, oldest first.
ApiUserTrend(rows) ==
    LET n == Len(rows)
        all_scores == [k \in 1..n |-> rows[k].score]
        blockers_count == Cardinality({k \in 1..n : rows[k].has_blockers})
    IN IF n = 0
       THEN [path |-> "api", message_count |-> 0, average_sentiment |-> Rat(0, 1),
             sentiment_trend |-> "stable", blocker_count |-> 0,
             blocker_rate |-> Rat(0, 1), risk_level |-> "low"]
       ELSE LET average_sentiment == Rat(SumSeq(all_scores), n)
            IN [path |-> "api", message_count |-> n,
                average_sentiment |-> average_sentiment,
                sentiment_trend |-> ApiTrend(all_scores),
                blocker_count |-> blockers_count,
                blocker_rate |-> Rat(blockers_count, n),
                risk_level |-> ApiRiskLevel(average_sentiment, blockers_count)]

\* Sentiment scores of the 0..1 scale, in hundredths; stored api scores.
ScoreValues == {0, 29, 50, 100}
ApiScoreValues == {-40, 0, 50}

\* Longest mixed observation list, longest list of equal scores, most api rows.
MaxObs == 2
MaxUniformObs == 10
MaxApiRows == 1

\* n observations of score v, the first b of them with a blocker.
UniformObs(n, v, b) == [k \in 1..n |-> [score |-> v, has_blockers |-> (k <= b)]]

ObservationInputs ==
    UNION { [1..n -> [score : ScoreValues, has_blockers : BOOLEAN]] : n \in 0..MaxObs }
      \cup { UniformObs(n, v, b) :
                n \in 1..MaxUniformObs, v \in ScoreValues, b \in 0..MaxUniformObs }

AllocIdle ==
    /\ tasks = <<>>
    /\ team_members = <<>>
    /\ team_skills = <<>>
    /\ call = 2
    /\ pc = "idle"
    /\ idx = 1
    /\ member_workloads = <<>>
    /\ individual_recommendations = <<>>
    /\ route_recommendations = <<>>
    /\ member_task_counts = <<>>
    /\ optimized = <<>>
    /\ team_metrics = EmptyMetrics

InitRisk ==
    /\ AllocIdle
    /\ SkillIdle
    /\ MessageIdle
    /\ TeamIdle
    /\ RunsIdle
    /\ observations \in {o \in ObservationInputs : ~OnRiskThreshold(o)}
    /\ timestamps_ok \in BOOLEAN
    /\ api_rows \in { UniformObs(n, v, b) :
                        n \in 0..MaxApiRows, v \in ApiScoreValues, b \in 0..MaxApiRows }
    /\ risk_reports = {}

Reported(path) == \E r \in risk_reports : r.path = path

\* sentiment_service.analyze_user_sentiment_trend(user_communications).
ServiceAnalyzeUser ==
    /\ pc = "idle"
    /\ ~Reported("service")
    /\ \/ /\ observations = <<>>
          /\ risk_reports' = risk_reports \cup {EmptyTrendAnalysis}
       \/ /\ observations # <<>>
          /\ ~timestamps_ok
          /\ risk_reports' = risk_reports \cup {EmptyTrendAnalysis}
       \/ /\ observations # <<>>
          /\ timestamps_ok
          /\ risk_reports' = risk_reports \cup {AnalyzeUserSentimentTrend(observations)}
    /\ UNCHANGED <<observations, timestamps_ok, api_rows>>
    /\ UNCHANGED otherThanRisk

\* GET /user/{user_id}/analysis of routers/sentiment.py.
RouterAnalyzeUser ==
    /\ pc = "idle"
    /\ ~Reported("router")
    /\ risk_reports' = risk_reports \cup {RouterUserAnalysis(observations)}
    /\ UNCHANGED <<observations, timestamps_ok, api_rows>>
    /\ UNCHANGED otherThanRisk

\* The per-user sentiment trend handler of api/sentiment.py.
ApiAnalyzeUser ==
    /\ pc = "idle"
    /\ ~Reported("api")
    /\ risk_reports' = risk_reports \cup {ApiUserTrend(api_rows)}
    /\ UNCHANGED <<observations, timestamps_ok, api_rows>>
    /\ UNCHANGED otherThanRisk

NextRisk ==
    \/ ServiceAnalyzeUser
    \/ RouterAnalyzeUser
    \/ ApiAnalyzeUser

SpecRisk == InitRisk /\ [][NextRisk]_vars

\* ------------------------------------------------------- skill scoring
\* A skill level is an integer number of thousandths.
\* Mutant of SkillService.calculate_skill_score: weights 0.35, 0.25, 0.25,
\* 0.15 over reference volumes 100, 20, 10 and a saturated peer rating.
SkillServiceScore_OtherWeights(us) ==
    IF ~us.found THEN 0
    ELSE Min(35 * Max(0, Min(us.github_commits, 100))
             + 125 * Max(0, Min(us.code_reviews, 20))
             + 250 * Max(0, Min(us.jira_tickets, 10))
             + 15 * Max(0, Min(us.peer_reviews_score, 100)), 10000)

\* SkillService.calculate_skill_score: the weighted, saturated evidence,
\* rescaled to 0-10.  <<>> is no row found (0.0 is returned).
SkillServiceScore(us) ==
    IF ~us.found THEN 0
    ELSE LET commit_part ==
                 IF us.github_username /\ us.github_commits > 0
                 THEN Min(4 * us.github_commits, 400) ELSE 0
             review_part ==
                 IF us.code_reviews > 0
                 THEN Min(6 * us.code_reviews, 300) ELSE 0
             ticket_part ==
                 IF us.jira_tickets > 0
                 THEN Min(10 * us.jira_tickets, 200) ELSE 0
             peer_part ==
                 IF us.peer_reviews_score > 0
                 THEN us.peer_reviews_score ELSE 0
             score == commit_part + review_part + ticket_part + peer_part
         IN Min(score * 10, 10000)

\* SkillAnalytics._calculate_github_skill_score.
GithubSkillScore(cd) ==
    LET language ==
            IF cd.language_skill /\ cd.language_commits > 0
            THEN Min(2000, 100 * cd.language_commits) + Min(1000, cd.total_lines)
            ELSE 0
        reviews == SumSeq([k \in DOMAIN cd.reviews_given |->
                              Min(1000, 50 * cd.reviews_given[k])])
    IN language + reviews

\* SkillAnalytics._calculate_jira_skill_score.
JiraSkillScore(cd) ==
    SumSeq([k \in DOMAIN cd.projects |->
               5 * cd.projects[k].completion_rate
                 + Min(1000, 50 * cd.projects[k].velocity)])

\* SkillAnalytics.calculate_skill_score: the sum, clamped to the 0-5 scale.
SkillAnalyticsScore(cd) ==
    Min(5000, Max(0, GithubSkillScore(cd) + JiraSkillScore(cd)))

\* Evidence values: commits, reviews, tickets, and peer score in hundredths.
CommitValues == {-5, 0, 40, 250}
ReviewValues == {0, 10, 80}
TicketValues == {0, 5, 30}
PeerValues == {0, 80, 500}
LineValues == {0, 400, 5000}

\* Most repositories and most projects of the contribution data.
MaxRepos == 2
MaxProjects == 1

UserSkillInputs ==
    [found : BOOLEAN, github_username : BOOLEAN, github_commits : CommitValues,
     code_reviews : ReviewValues, jira_tickets : TicketValues,
     peer_reviews_score : PeerValues]

ContributionInputs ==
    [language_skill : BOOLEAN, language_commits : {0, 5, 30},
     total_lines : LineValues,
     reviews_given : UNION {[1..n -> {0, 10, 40}] : n \in 0..MaxRepos},
     projects : UNION {[1..n -> [completion_rate : {0, 100}, velocity : {0, 50}]]
                          : n \in 0..MaxProjects}]

InitSkill ==
    /\ AllocIdle
    /\ RiskIdle
    /\ MessageIdle
    /\ TeamIdle
    /\ RunsIdle
    /\ \/ user_skill \in UserSkillInputs /\ contribution_data = NoContributionData
       \/ user_skill = NoUserSkill /\ contribution_data \in ContributionInputs
    /\ skill_scores = {}
    /\ route_status = "none"
    /\ skill_levels = NoSkillLevels
    /\ progression = "none"

Scored(impl) == \E r \in skill_scores : r.impl = impl

\* SkillService.calculate_skill_score(user_id, skill_id) returns a float.
ServiceSkillScore ==
    /\ pc = "idle"
    /\ ~Scored("skill_service")
    /\ skill_scores' = skill_scores \cup
          {[impl |-> "skill_service", level |-> SkillServiceScore(user_skill)]}
    /\ UNCHANGED <<user_skill, contribution_data, route_status, skill_levels, progression>>
    /\ UNCHANGED otherThanSkill

\* SkillAnalytics.calculate_skill_score(github_data, jira_data, skill_name)
\* returns a float.
AnalyticsSkillScore ==
    /\ pc = "idle"
    /\ ~Scored("skill_analytics")
    /\ skill_scores' = skill_scores \cup
          {[impl |-> "skill_analytics", level |-> SkillAnalyticsScore(contribution_data)]}
    /\ UNCHANGED <<user_skill, contribution_data, route_status, skill_levels, progression>>
    /\ UNCHANGED otherThanSkill

\* GET /user/{user_id}/skills: for each skill of the user the handler calls
\* calculate_skill_score with two arguments and reads score, trend and
\* confidence from the result; the call raises and the handler answers 500.
RouteSkillAnalytics ==
    /\ pc = "idle"
    /\ route_status = "none"
    /\ \/ /\ user_skill.found
          /\ route_status' = "500"
       \/ /\ ~user_skill.found
          /\ route_status' = "200"
    /\ UNCHANGED <<user_skill, contribution_data, skill_scores, skill_levels, progression>>
    /\ UNCHANGED otherThanSkill

NextSkill ==
    \/ ServiceSkillScore
    \/ AnalyticsSkillScore
    \/ RouteSkillAnalytics

SpecSkill == InitSkill /\ [][NextSkill]_vars

\* ------------------------------------------------------- trend direction
\* Trend of get_user_skill_progression: the relative change of the level over
\* the last `days` against the level over the last 2 * `days`, in percent,
\* against 5.
ProgressionTrend(current_level, previous_level) ==
    IF previous_level > 0
    THEN IF 100 * (current_level - previous_level) > 5 * previous_level THEN "improving"
         ELSE IF 100 * (current_level - previous_level) < 0 - 5 * previous_level
              THEN "declining"
         ELSE "stable"
    ELSE IF current_level > 0 THEN "improving" ELSE "stable"

\* The two averages of a comparison differ by exactly the threshold, where
\* the rounding of the floating-point averages decides the direction.
OnTrendThreshold(obs) ==
    LET n == Len(obs)
        scores == [k \in 1..n |-> obs[k].score]
        stored == [k \in 1..n |-> StoredScore(obs[n + 1 - k].score)]
        h == n \div 2
        recent5 == SumSeq(SubSeq(scores, n - 4, n))
        earlier == SumSeq(SubSeq(scores, 1, n - 5))
        recent == SumSeq(SubSeq(stored, 1, h))
        older == SumSeq(SubSeq(stored, h + 1, n))
    IN \/ /\ n > 5
          /\ recent5 * (n - 5) \in {5 * earlier + 50 * (n - 5), 5 * earlier - 50 * (n - 5)}
       \/ /\ n >= 10
          /\ recent * (n - h) \in {older * h + 10 * h * (n - h), older * h - 10 * h * (n - h)}

\* Scores of the series (hundredths) and skill levels (tenths) of the trend inputs.
TrendScoreValues == {0, 50, 100}
LevelValues == {0, 40, 41, 50}

\* Longest free series, longest two-level series, most api rows of a series.
MaxTrendLen == 6
MaxStepLen == 10
MaxTrendRows == 3

\* n scores: the first k are v, the others w.
StepObs(n, k, v, w) ==
    [j \in 1..n |-> [score |-> IF j <= k THEN v ELSE w, has_blockers |-> FALSE]]

SeriesInputs ==
    UNION { [1..n -> [score : TrendScoreValues, has_blockers : {FALSE}]]
              : n \in 0..MaxTrendLen }
      \cup { StepObs(n, k, v, w) :
               n \in 1..MaxStepLen, k \in 0..MaxStepLen,
               v \in TrendScoreValues, w \in TrendScoreValues }

InitTrend ==
    /\ AllocIdle
    /\ MessageIdle
    /\ TeamIdle
    /\ RunsIdle
    /\ user_skill = NoUserSkill
    /\ contribution_data = NoContributionData
    /\ skill_scores = {}
    /\ route_status = "none"
    /\ progression = "none"
    /\ risk_reports = {}
    /\ \/ /\ observations \in
                {o \in SeriesInputs : ~OnRiskThreshold(o) /\ ~OnTrendThreshold(o)}
          /\ timestamps_ok \in BOOLEAN
          /\ api_rows = <<>>
          /\ skill_levels = NoSkillLevels
       \/ /\ observations = <<>>
          /\ timestamps_ok = TRUE
          /\ api_rows \in UNION { [1..n -> [score : ApiScoreValues, has_blockers : {FALSE}]]
                                    : n \in 0..MaxTrendRows }
          /\ skill_levels \in [current_level : LevelValues, previous_level : LevelValues]

\* GET /user/{user_id}/progression, for one skill of the user.
SkillProgression ==
    /\ pc = "idle"
    /\ progression = "none"
    /\ progression' = ProgressionTrend(skill_levels.current_level,
                                       skill_levels.previous_level)
    /\ UNCHANGED <<user_skill, contribution_data, skill_scores, route_status, skill_levels>>
    /\ UNCHANGED otherThanSkill

NextTrend ==
    \/ ServiceAnalyzeUser
    \/ RouterAnalyzeUser
    \/ ApiAnalyzeUser
    \/ SkillProgression

SpecTrend == InitTrend /\ [][NextTrend]_vars

\* ------------------------------------------------ analyze_message_sentiment
\* Mutant of _simple_sentiment_analysis: the final clamp to [0, 1] left out.
SimpleSentimentAnalysis_Unclamped(m) ==
    LET base == IF m.positive_count > m.negative_count
                THEN 50 + Min(40, 10 * m.positive_count)
                ELSE IF m.negative_count > m.positive_count
                     THEN 50 - Min(40, 10 * m.negative_count)
                     ELSE 50
        sentiment_score == IF m.blocker_count > 0
                           THEN base - Min(20, 5 * m.blocker_count) ELSE base
    IN [sentiment_score |-> sentiment_score,
        confidence |-> Min(10, m.positive_count + m.negative_count + m.blocker_count),
        has_blockers |-> m.blocker_count > 0,
        emotional_tone |-> IF sentiment_score > 60 THEN "positive"
                           ELSE IF sentiment_score < 40 THEN "negative"
                           ELSE "neutral",
        urgency_level |-> IF m.blocker_count > 2 THEN "high"
                          ELSE IF m.blocker_count > 0 THEN "medium"
                          ELSE "low"]

\* _simple_sentiment_analysis over the keyword counts of the message; the
\* sentiment score is in hundredths, the confidence in tenths.  A message
\* that is not a string raises in lower() and gets the neutral default.
SimpleSentimentAnalysis(m) ==
    IF ~m.is_text
    THEN [sentiment_score |-> 50, confidence |-> 0, has_blockers |-> FALSE,
          emotional_tone |-> "neutral", urgency_level |-> "low"]
    ELSE LET base == IF m.positive_count > m.negative_count
                     THEN 50 + Min(40, 10 * m.positive_count)
                     ELSE IF m.negative_count > m.positive_count
                          THEN 50 - Min(40, 10 * m.negative_count)
                          ELSE 50
             adjusted == IF m.blocker_count > 0
                         THEN base - Min(20, 5 * m.blocker_count) ELSE base
             sentiment_score == Max(0, Min(100, adjusted))
         IN [sentiment_score |-> sentiment_score,
             confidence |-> Min(10, m.positive_count + m.negative_count + m.blocker_count),
             has_blockers |-> m.blocker_count > 0,
             emotional_tone |-> IF sentiment_score > 60 THEN "positive"
                                ELSE IF sentiment_score < 40 THEN "negative"
                                ELSE "neutral",
             urgency_level |-> IF m.blocker_count > 2 THEN "high"
                               ELSE IF m.blocker_count > 0 THEN "medium"
                               ELSE "low"]

\* Mutant of the except branch: the neutral default instead of the heuristic.
OnClassifierError_Neutral(m) ==
    [sentiment_score |-> 50, confidence |-> 0, has_blockers |-> FALSE,
     emotional_tone |-> "neutral", urgency_level |-> "low"]

\* The except branch of analyze_message_sentiment.
OnClassifierError(m) == SimpleSentimentAnalysis(m)

\* The dict built from the parsed classifier answer (lines 60-70): the score
\* and the confidence are clamped to [0, 1], whatever numbers were answered.
\* The await before it raises on every call of this build (AwaitResponse), so
\* no action completes this branch.
ClassifierResult(result) ==
    [sentiment_score |-> Max(0, Min(100, result.sentiment_score)),
     has_blockers |-> result.has_blockers]

\* analyze_message_sentiment from call to return: the await raises and the
\* except branch answers.
AnalyzeMessageSentiment(m) == OnClassifierError(m)

KeywordCounts == {0, 1, 2}
BlockerCounts == {0, 1, 3}

Messages ==
    [is_text : {TRUE}, positive_count : KeywordCounts, negative_count : KeywordCounts,
     blocker_count : BlockerCounts]
      \cup {[is_text |-> FALSE, positive_count |-> 0, negative_count |-> 0,
             blocker_count |-> 0]}

\* What chat.completions.create can hand back: a JSON object of the requested
\* format, or content that is not such an object.
Responses ==
    [kind : {"well_formed"}, sentiment_score : {-50, 10, 90, 250},
     has_blockers : BOOLEAN]
      \cup {[kind |-> "malformed"]}

\* Most messages of a batch after the first.
MaxBatch == 2

InitMessage ==
    /\ AllocIdle
    /\ RiskIdle
    /\ SkillIdle
    /\ TeamIdle
    /\ RunsIdle
    /\ message \in Messages
    /\ response = NoResponse
    /\ msg_pc = "create"
    /\ observation = <<>>
    /\ batch_left \in 0..MaxBatch

\* chat.completions.create(...) of the synchronous OpenAI client returns.
ClassifierResponds ==
    /\ msg_pc = "create"
    /\ response' \in Responses
    /\ msg_pc' = "await"
    /\ UNCHANGED <<message, observation, batch_left>>
    /\ UNCHANGED otherThanMessage

\* chat.completions.create(...) raises.
ClassifierRaises ==
    /\ msg_pc = "create"
    /\ response' = [kind |-> "raised"]
    /\ msg_pc' = "except"
    /\ UNCHANGED <<message, observation, batch_left>>
    /\ UNCHANGED otherThanMessage

\* `await` applied to what create returned: self.openai_client is OpenAI(...),
\* the synchronous client, whose completion object is not awaitable, so the
\* expression raises TypeError inside the try block, whatever was answered.
AwaitResponse ==
    /\ msg_pc = "await"
    /\ msg_pc' = "except"
    /\ UNCHANGED <<message, response, observation, batch_left>>
    /\ UNCHANGED otherThanMessage

\* except Exception: return self._simple_sentiment_analysis(message).
SimpleFallback ==
    /\ msg_pc = "except"
    /\ observation' = OnClassifierError(message)
    /\ msg_pc' = "returned"
    /\ UNCHANGED <<message, response, batch_left>>
    /\ UNCHANGED otherThanMessage

\* The loop of analyze_user_sentiment_trend takes the next communication.
NextInBatch ==
    /\ msg_pc = "returned"
    /\ batch_left > 0
    /\ batch_left' = batch_left - 1
    /\ message' \in Messages
    /\ response' = NoResponse
    /\ msg_pc' = "create"
    /\ UNCHANGED observation
    /\ UNCHANGED otherThanMessage

NextMessage ==
    \/ ClassifierResponds
    \/ ClassifierRaises
    \/ AwaitResponse
    \/ SimpleFallback
    \/ NextInBatch

SpecMessage == InitMessage /\ [][NextMessage]_vars

\* The steps of the program itself are taken when they can be; the classifier
\* is under no obligation to respond or to fail.
SpecMessageFair ==
    /\ SpecMessage
    /\ WF_vars(AwaitResponse)
    /\ WF_vars(SimpleFallback)
    /\ WF_vars(NextInBatch)

\* --------------------------------------------------- analyze_team_sentiment
RECURSIVE GCD(_, _)
GCD(a, b) == IF b = 0 THEN a ELSE GCD(b, a % b)

\* A non-negative rational in lowest terms.
Reduced(r) ==
    LET g == GCD(r.num, r.den)
    IN Rat(r.num \div g, r.den \div g)

RECURSIVE RatSum(_)
\* The sum of a sequence of non-negative rationals.
RatSum(rs) ==
    IF rs = <<>> THEN Rat(0, 1)
    ELSE LET h == Head(rs)
             t == RatSum(Tail(rs))
         IN Reduced(Rat(h.num * t.den + t.num * h.den, h.den * t.den))

RiskLevelKey(risk_level) ==
    IF risk_level = "high" THEN 3 ELSE IF risk_level = "medium" THEN 2 ELSE 1

\* Mutant of the sort of at_risk_members: the list left as collected.
SortByRiskLevel_Unsorted(members) == members

\* at_risk_members.sort(key=level rank, reverse=True): by level, stable.
SortByRiskLevel(members) ==
    LET n == Len(members)
        key(j) == RiskLevelKey(members[j].risk_level)
        rank(j) == Cardinality({k \in 1..n : key(k) > key(j)})
                   + Cardinality({k \in 1..(j - 1) : key(k) = key(j)})
                   + 1
    IN [p \in 1..n |-> members[CHOOSE j \in 1..n : rank(j) = p]]

\* _calculate_team_trend.
CalculateTeamTrend(user_analyses) ==
    LET improving_count ==
            Cardinality({k \in DOMAIN user_analyses :
                            user_analyses[k].sentiment_trend = "improving"})
        declining_count ==
            Cardinality({k \in DOMAIN user_analyses :
                            user_analyses[k].sentiment_trend = "declining"})
    IN IF improving_count > declining_count THEN "improving"
       ELSE IF declining_count > improving_count THEN "declining"
       ELSE "stable"

\* _calculate_team_health_score: max(0, min(1, avg - at_risk / size * 0.3)).
CalculateTeamHealthScore(avg_sentiment, at_risk_count, team_size) ==
    LET raw == Rat(10 * team_size * avg_sentiment.num
                     - 3 * at_risk_count * avg_sentiment.den,
                   10 * team_size * avg_sentiment.den)
    IN IF raw.num < 0 THEN Rat(0, 1)
       ELSE IF raw.num > raw.den THEN Rat(1, 1)
       ELSE raw

\* _empty_team_analysis.
EmptyTeamAnalysis ==
    [team_size |-> 0, team_average_sentiment |-> Rat(50, 100),
     team_sentiment_trend |-> "stable", total_blockers |-> 0,
     at_risk_members |-> <<>>, user_analyses |-> <<>>,
     team_health_score |-> Rat(50, 100)]

\* One entry of sentiment_scores: a communication after its analysis.
Observed(m) ==
    LET analysis == AnalyzeMessageSentiment(m)
    IN [score |-> analysis.sentiment_score, has_blockers |-> analysis.has_blockers]

\* The analysis of one user's communications within the team analysis.
UserAnalysis(uc) ==
    IF uc.timestamps_ok
    THEN AnalyzeUserSentimentTrend(
             [k \in DOMAIN uc.communications |-> Observed(uc.communications[k])])
    ELSE EmptyTrendAnalysis

\* Mutant of the team average: the members' averages weighted by their
\* message counts.
TeamAverage_MessageWeighted(user_analyses) ==
    LET n == Len(user_analyses)
        total == RatSum([k \in 1..n |->
                     Rat(user_analyses[k].average_sentiment.num
                             * user_analyses[k].message_count,
                         user_analyses[k].average_sentiment.den)])
        messages == SumSeq([k \in 1..n |-> user_analyses[k].message_count])
    IN IF messages = 0 THEN Rat(50, 100)
       ELSE Reduced(Rat(total.num, total.den * messages))

\* team_avg_sentiment = sum(team_sentiment_scores) / len(team_sentiment_scores).
TeamAverage(user_analyses) ==
    LET n == Len(user_analyses)
        total == RatSum([k \in 1..n |-> user_analyses[k].average_sentiment])
    IN Reduced(Rat(total.num, total.den * n))

\* analyze_team_sentiment over the communications grouped by user, the users
\* in the order of their first communication.
AnalyzeTeamSentiment(team) ==
    LET n == Len(team)
        user_analyses == [k \in 1..n |-> UserAnalysis(team[k])]
        team_avg_sentiment == TeamAverage(user_analyses)
        entries == [k \in 1..n |->
                      [user_id |-> team[k].user_id,
                       risk_level |-> user_analyses[k].risk_level,
                       sentiment |-> user_analyses[k].average_sentiment]]
        AtRisk(e) == e.risk_level \in {"medium", "high"}
        at_risk_members == SortByRiskLevel(SelectSeq(entries, AtRisk))
    IN [team_size |-> n,
        team_average_sentiment |-> team_avg_sentiment,
        team_sentiment_trend |-> CalculateTeamTrend(user_analyses),
        total_blockers |-> SumSeq([k \in 1..n |-> user_analyses[k].blocker_count]),
        at_risk_members |-> at_risk_members,
        user_analyses |-> user_analyses,
        team_health_score |->
            CalculateTeamHealthScore(team_avg_sentiment, Len(at_risk_members), n)]

\* The messages of the team inputs, as their keyword counts.
TeamMessages ==
    { [is_text |-> TRUE, positive_count |-> 2, negative_count |-> 0, blocker_count |-> 0],
      [is_text |-> TRUE, positive_count |-> 0, negative_count |-> 0, blocker_count |-> 0],
      [is_text |-> TRUE, positive_count |-> 0, negative_count |-> 1, blocker_count |-> 2],
      [is_text |-> TRUE, positive_count |-> 0, negative_count |-> 4, blocker_count |-> 0],
      [is_text |-> TRUE, positive_count |-> 0, negative_count |-> 5, blocker_count |-> 3] }

\* Most users of a team, most messages of one user.
MaxTeamUsers == 3
MaxUserMessages == 2

\* A user's communications: some copies of one message, or communications
\* with an unparsable timestamp.
UserCommunications ==
    {[communications |-> [k \in 1..n |-> m], timestamps_ok |-> TRUE]
        : n \in 1..MaxUserMessages, m \in TeamMessages}
      \cup {[communications |-> [k \in 1..1 |-> m], timestamps_ok |-> FALSE]
                : m \in {t \in TeamMessages : t.blocker_count = 3}}

InitTeam ==
    /\ AllocIdle
    /\ RiskIdle
    /\ SkillIdle
    /\ MessageIdle
    /\ RunsIdle
    /\ \E n \in 0..MaxTeamUsers : \E ucs \in [1..n -> UserCommunications] :
          team_communications =
              [k \in 1..n |-> [user_id |-> k,
                               communications |-> ucs[k].communications,
                               timestamps_ok |-> ucs[k].timestamps_ok]]
    /\ team_report = <<>>

\* sentiment_service.analyze_team_sentiment(team_communications).
AnalyzeTeam ==
    /\ pc = "idle"
    /\ msg_pc = "idle"
    /\ team_report = <<>>
    /\ \/ /\ team_communications = <<>>
          /\ team_report' = <<EmptyTeamAnalysis>>
       \/ /\ team_communications # <<>>
          /\ team_report' = <<AnalyzeTeamSentiment(team_communications)>>
    /\ UNCHANGED team_communications
    /\ UNCHANGED otherThanTeam

NextTeam == AnalyzeTeam

SpecTeam == InitTeam /\ [][NextTeam]_vars

\* ------------------------------------ concurrent optimize runs
\* Concurrent calls of _optimize_workload_balance on task_allocation_engine,
\* the one engine object of the process, and the sizes of their inputs.
MaxRuns == 2
MaxRunRoster == 2
MaxRunTasks == 3

Runs == 1..MaxRuns

RECURSIVE AllocateTasksFrom(_, _, _, _, _)
\* The task loop of allocate_tasks from position k on.
AllocateTasksFrom(ts, k, members, matrix, workloads) ==
    IF k > Len(ts) THEN <<>>
    ELSE (IF ts[k].assignee_id # 0 THEN <<>>
          ELSE RecommendAssignee(ts[k], members, matrix, workloads))
         \o AllocateTasksFrom(ts, k + 1, members, matrix, workloads)

\* allocate_tasks, for the workloads its call has drawn.
AllocateTasks(ts, members, skills, workloads) ==
    AllocateTasksFrom(ts, 1, members,
                      CreateMemberSkillMatrix(members, skills), workloads)

RECURSIVE OptimizeFrom(_, _, _, _)
\* The recommendation loop of _optimize_workload_balance from position k on.
OptimizeFrom(recommendations, k, counts, out) ==
    IF k > Len(recommendations) THEN out
    ELSE LET best == BestAssignee(recommendations[k].recommendations, 1,
                                  counts, InitialBest)
         IN IF best.assignee # None
            THEN OptimizeFrom(recommendations, k + 1,
                     [counts EXCEPT ![best.assignee.member_id] = @ + 1],
                     Append(out, [task_id |-> recommendations[k].task_id,
                                  assigned_to |-> best.assignee,
                                  optimization_score |-> best.score]))
            ELSE OptimizeFrom(recommendations, k + 1, counts, out)

\* _optimize_workload_balance run from start to end by one caller.
OptimizeWorkloadBalance(recommendations, members) ==
    OptimizeFrom(recommendations, 1, [m \in MemberIds(members) |-> 0], <<>>)

\* Mutant of the counter's scope: member_task_counts kept as an attribute of
\* the engine, one dict for every call.
CounterScope_Engine(r) == 0

\* member_task_counts is a local of the call: one dict per run.
CounterScope(r) == r

CounterScopes == {CounterScope(r) : r \in Runs}

NewRun == [pc |-> "call", idx |-> 1, optimized |-> <<>>]

InitRuns ==
    /\ RiskIdle
    /\ SkillIdle
    /\ MessageIdle
    /\ TeamIdle
    /\ \E M \in 1..MaxRunRoster, N \in 1..MaxRunTasks, t \in TaskTexts \ {{}} :
          /\ team_members = [k \in 1..M |-> k]
          /\ team_skills \in [1..M -> Profiles]
          /\ tasks = MakeTasks([k \in 1..N |-> [text |-> t, assignee_id |-> 0]])
    /\ member_workloads \in [MemberIds(team_members) -> LoadValues]
    /\ individual_recommendations =
          AllocateTasks(tasks, team_members, team_skills, member_workloads)
    /\ call = 2
    /\ pc = "idle"
    /\ idx = 1
    /\ route_recommendations = <<>>
    /\ member_task_counts = <<>>
    /\ optimized = <<>>
    /\ team_metrics = EmptyMetrics
    /\ runs = [r \in Runs |-> NewRun]
    /\ run_task_counts = [c \in CounterScopes |-> <<>>]

\* Run r enters _optimize_workload_balance: fresh counts, empty result.
RunStart(r) ==
    /\ runs[r].pc = "call"
    /\ run_task_counts' =
          [run_task_counts EXCEPT ![CounterScope(r)] =
              [m \in MemberIds(team_members) |-> 0]]
    /\ runs' = [runs EXCEPT ![r] = [pc |-> "loop", idx |-> 1, optimized |-> <<>>]]
    /\ UNCHANGED otherThanRuns

\* One iteration of run r's recommendation loop.
RunStep(r) ==
    /\ runs[r].pc = "loop"
    /\ runs[r].idx <= Len(individual_recommendations)
    /\ LET recommendation == individual_recommendations[runs[r].idx]
           counts == run_task_counts[CounterScope(r)]
           best == BestAssignee(recommendation.recommendations, 1, counts,
                                InitialBest)
       IN IF best.assignee # None
          THEN /\ run_task_counts' =
                     [run_task_counts EXCEPT
                         ![CounterScope(r)][best.assignee.member_id] = @ + 1]
               /\ runs' = [runs EXCEPT
                     ![r].idx = @ + 1,
                     ![r].optimized = Append(@,
                         [task_id |-> recommendation.task_id,
                          assigned_to |-> best.assignee,
                          optimization_score |-> best.score])]
          ELSE /\ runs' = [runs EXCEPT ![r].idx = @ + 1]
               /\ UNCHANGED run_task_counts
    /\ UNCHANGED otherThanRuns

\* Run r returns its optimized list.
RunReturn(r) ==
    /\ runs[r].pc = "loop"
    /\ runs[r].idx > Len(individual_recommendations)
    /\ runs' = [runs EXCEPT ![r].pc = "returned"]
    /\ UNCHANGED run_task_counts
    /\ UNCHANGED otherThanRuns

NextRuns ==
    \/ \E r \in Runs : RunStart(r)
    \/ \E r \in Runs : RunStep(r)
    \/ \E r \in Runs : RunReturn(r)

SpecRuns == InitRuns /\ [][NextRuns]_vars

\* ================================================================ claims
\* Helpers over the state of a run.
TaskById(id) == tasks[CHOOSE k \in DOMAIN tasks : tasks[k].id = id]

Matrix == CreateMemberSkillMatrix(team_members, team_skills)

\* The full candidate list of a task, in roster order, before sorting.
CandidatesOf(task) ==
    [k \in 1..Len(team_members) |->
        Candidate(team_members[k], InferTaskRequirements(task), Matrix,
                  member_workloads)]

PositionOf(member_id, cands) ==
    CHOOSE p \in DOMAIN cands : cands[p].member_id = member_id

WorkloadsDrawn == DOMAIN member_workloads = MemberIds(team_members)

\* Identical unassigned tasks, identical members, identical drawn loads, N >= M.
UniformRun ==
    /\ Len(team_members) >= 1
    /\ Len(tasks) >= Len(team_members)
    /\ \A a, b \in DOMAIN tasks :
          tasks[a].text = tasks[b].text /\ tasks[a].assignee_id = 0
    /\ \A a, b \in MemberIds(team_members) :
          /\ Matrix[a] = Matrix[b]
          /\ member_workloads[a] = member_workloads[b]

\* C1: allocation balance: after the optimize pass over N identical tasks and
\* M identical, equally loaded members (N >= M) the most-assigned member has
\* at most one task more than the least-assigned member.
C1_AllocationBalance ==
    (pc = "done" /\ UniformRun) =>
        team_metrics.max_tasks - team_metrics.min_tasks <= 1

\* C2: the optimize pass takes the recommendations in the order given and
\* assigns each task to a candidate that maximizes overall_score minus 0.1 per
\* task already assigned to that candidate in this run, then counts it.
C2_GreedyPenaltyChoice ==
    [][ (pc = "optimize" /\ idx <= Len(individual_recommendations)
            /\ individual_recommendations[idx].recommendations # <<>>)
        => LET rec == individual_recommendations[idx]
               cands == rec.recommendations
           IN /\ Len(optimized') = Len(optimized) + 1
              /\ LET entry == optimized'[Len(optimized')]
                 IN /\ entry.task_id = rec.task_id
                    /\ \E k \in DOMAIN cands : entry.assigned_to = cands[k]
                    /\ \A k \in DOMAIN cands :
                          AdjustedScore(entry.assigned_to, member_task_counts)
                              >= AdjustedScore(cands[k], member_task_counts)
                    /\ member_task_counts' =
                          [member_task_counts EXCEPT
                              ![entry.assigned_to.member_id] = @ + 1] ]_vars

\* C5: determinism: the two allocate_tasks calls of one /allocate request,
\* made with identical tasks, roster and skills, return identical
\* recommendations.
C5_Deterministic ==
    (pc = "done" /\ call = 2) =>
        route_recommendations = individual_recommendations

\* The total order of the ranking: descending overall_score, then lower load,
\* then ascending member id.
RankedBefore(a, b) ==
    \/ a.overall_score > b.overall_score
    \/ /\ a.overall_score = b.overall_score
       /\ \/ a.workload_score > b.workload_score
          \/ /\ a.workload_score = b.workload_score
             /\ a.member_id < b.member_id

\* C6: ranking is a total order: candidates are listed by descending
\* overall_score, ties broken by lower load, then by ascending member id, so
\* the list does not depend on the roster order.
C6_RankingTotalOrder ==
    \A i \in DOMAIN individual_recommendations :
        LET cands == individual_recommendations[i].recommendations
        IN \A p \in 1..(Len(cands) - 1) : RankedBefore(cands[p], cands[p + 1])

RosterPosition(member_id) ==
    CHOOSE k \in DOMAIN team_members : team_members[k] = member_id

\* C6 (amended): the candidates of a task are listed by descending
\* overall_score, candidates of equal score keep the order of the roster, and
\* the list is the first three of that order: no left-out member outscores a
\* listed one, and the suggested assignee is the head of the list.
C6_StableDescending ==
    \A i \in DOMAIN individual_recommendations :
        LET rec == individual_recommendations[i]
            cands == rec.recommendations
            listed == {cands[p].member_id : p \in DOMAIN cands}
            all == CandidatesOf(TaskById(rec.task_id))
        IN WorkloadsDrawn =>
           /\ Len(cands) = Min(3, Len(team_members))
           /\ \A p \in 1..(Len(cands) - 1) :
                 \/ cands[p].overall_score > cands[p + 1].overall_score
                 \/ /\ cands[p].overall_score = cands[p + 1].overall_score
                    /\ RosterPosition(cands[p].member_id)
                          < RosterPosition(cands[p + 1].member_id)
           /\ \A k \in DOMAIN all : \A p \in DOMAIN cands :
                 all[k].member_id \notin listed =>
                    /\ all[k].overall_score <= cands[p].overall_score
                    /\ all[k].overall_score = cands[p].overall_score
                          => RosterPosition(cands[p].member_id) < k
           /\ rec.suggested_assignee = IF cands = <<>> THEN None ELSE cands[1]

\* C6 witness: two candidates of equal score and equal load listed with the
\* larger member id first, as the roster had them.
C6_Witness ==
    \E i \in DOMAIN individual_recommendations :
        LET cands == individual_recommendations[i].recommendations
        IN \E p \in 1..(Len(cands) - 1) :
              /\ cands[p].overall_score = cands[p + 1].overall_score
              /\ cands[p].workload_score = cands[p + 1].workload_score
              /\ cands[p].member_id > cands[p + 1].member_id

\* skill_match raised to v for the candidate at roster position j.
RaiseSkillMatch(cands, j, v) ==
    LET c == cands[j]
    IN [cands EXCEPT ![j] =
          [c EXCEPT !.skill_match = v,
                    !.overall_score = OverallScore(v, c.workload_score, c.growth_score)]]

SkillMatchGrid == {k * (Scale \div 12) : k \in 0..12}

\* C7: allocation monotonicity: raising one candidate's skill_match, all other
\* factors of all candidates unchanged, never lowers that candidate's
\* overall_score and never moves it behind a candidate it was ranked before.
C7_SkillMatchMonotone ==
    (pc = "recommend" /\ idx <= Len(tasks)) =>
        LET cands == CandidatesOf(tasks[idx])
            before == SortByOverallScore(cands)
        IN \A j \in DOMAIN cands :
           \A v \in {g \in SkillMatchGrid : g > cands[j].skill_match} :
              LET raised == RaiseSkillMatch(cands, j, v)
                  after == SortByOverallScore(raised)
                  me == cands[j].member_id
              IN /\ raised[j].overall_score >= cands[j].overall_score
                 /\ PositionOf(me, after) <= PositionOf(me, before)
                 /\ \A k \in DOMAIN cands :
                       PositionOf(me, before) < PositionOf(cands[k].member_id, before)
                           => PositionOf(me, after) < PositionOf(cands[k].member_id, after)

\* C7 witness: a raise of skill_match that moves a candidate up the ranking.
C7_Witness ==
    /\ pc = "recommend" /\ idx <= Len(tasks)
    /\ LET cands == CandidatesOf(tasks[idx])
       IN \E j \in DOMAIN cands :
          \E v \in {g \in SkillMatchGrid : g > cands[j].skill_match} :
             PositionOf(cands[j].member_id,
                        SortByOverallScore(RaiseSkillMatch(cands, j, v)))
                 < PositionOf(cands[j].member_id, SortByOverallScore(cands))

\* C8: a task with zero eligible candidates (an empty roster) still gets a
\* recommendation entry, with an empty candidate list and an
\* AllocationInfeasible marker.
C8_InfeasibleTaskMarked ==
    (pc \in {"optimize", "done"} /\ team_members = <<>>) =>
        \A k \in DOMAIN tasks :
            tasks[k].assignee_id = 0 =>
                \E i \in DOMAIN individual_recommendations :
                    LET rec == individual_recommendations[i]
                    IN /\ rec.task_id = tasks[k].id
                       /\ rec.recommendations = <<>>
                       /\ "allocation_infeasible" \in DOMAIN rec

\* The claimed skill match of one requirement: min(1, level / required) for a
\* skill the member has, 0 otherwise, in 1/Scale units.
ClaimedMatch(member_level, required_level) ==
    IF member_level > 0
    THEN Min(Scale, (Scale * member_level) \div required_level)
    ELSE 0

\* C9: skill_match is the requirement-weighted mean of the per-skill matches
\* min(1, member_level / required_level) (0 for a missing skill), it lies in
\* [0, 1], and {Python: 4, SQL: 2} against {Python: 6, SQL: 0} gives 4/6.
C9_SkillMatchWeightedMean ==
    \A i \in DOMAIN individual_recommendations :
        LET rec == individual_recommendations[i]
            req == InferTaskRequirements(TaskById(rec.task_id))
            R == DOMAIN req
        IN \A p \in DOMAIN rec.recommendations :
            LET c == rec.recommendations[p]
                row == Matrix[c.member_id]
            IN /\ c.skill_match * SumOver(req, R) =
                     SumOver([s \in R |-> ClaimedMatch(row[s], req[s]) * req[s]], R)
               /\ 0 <= c.skill_match /\ c.skill_match <= Scale
               /\ (req = [Python |-> 4, SQL |-> 2]
                      /\ row = [Python |-> 6, SQL |-> 0])
                  => 6 * c.skill_match = 4 * Scale

\* C9 witness: the {Python: 4, SQL: 2} task scored for a {Python: 6, SQL: 0} member.
C9_Witness ==
    \E i \in DOMAIN individual_recommendations :
        LET rec == individual_recommendations[i]
        IN /\ InferTaskRequirements(TaskById(rec.task_id)) = [Python |-> 4, SQL |-> 2]
           /\ \E p \in DOMAIN rec.recommendations :
                 /\ Matrix[rec.recommendations[p].member_id] = [Python |-> 6, SQL |-> 0]
                 /\ 6 * rec.recommendations[p].skill_match = 4 * Scale

\* The levels of the spec's two-clause rule: high if avg < 0.3 or rate > 0.5,
\* else medium if avg < 0.45 or rate > 0.25, else low.
ThresholdRule(avg, rate) ==
    IF RatLess(avg, Rat(30, 100)) \/ RatLess(Rat(50, 100), rate) THEN "high"
    ELSE IF RatLess(avg, Rat(45, 100)) \/ RatLess(Rat(25, 100), rate) THEN "medium"
    ELSE "low"

ServiceRiskReports == {r \in risk_reports : r.path = "service" /\ r.message_count > 0}

\* C3 (as stated): the service's risk level is first-match-wins on the
\* sentiment and blocker-rate thresholds; (0.29, 0.0) and (0.5, 0.6) are high
\* and (0.5, 0.1) is low.
C3_ThresholdRule ==
    \A r \in ServiceRiskReports :
        r.risk_level = ThresholdRule(r.average_sentiment, r.blocker_rate)

\* Ten times the combined risk score 0.7 * (1 - avg) + 0.3 * rate, as a rational.
CombinedRisk(avg, rate) ==
    Rat(7 * (avg.den - avg.num) * rate.den + 3 * rate.num * avg.den,
        avg.den * rate.den)

\* C3 (amended): the service's risk level is first-match-wins on the combined
\* risk score 0.7 * (1 - avg) + 0.3 * rate: high from 0.8, medium from 0.6,
\* low below; (0.29, 0.0), (0.5, 0.6) and (0.5, 0.1) are all low.
C3_CombinedScoreRule ==
    \A r \in ServiceRiskReports :
        LET risk == CombinedRisk(r.average_sentiment, r.blocker_rate)
        IN /\ r.risk_level = "high" <=> ~RatLess(risk, Rat(8, 1))
           /\ r.risk_level = "medium" <=>
                 (RatLess(risk, Rat(8, 1)) /\ ~RatLess(risk, Rat(6, 1)))
           /\ r.risk_level = "low" <=> RatLess(risk, Rat(6, 1))
           /\ (RatEq(r.average_sentiment, Rat(29, 100)) /\ r.blocker_count = 0)
                 => r.risk_level = "low"
           /\ (RatEq(r.average_sentiment, Rat(1, 2))
                 /\ (RatEq(r.blocker_rate, Rat(6, 10)) \/ RatEq(r.blocker_rate, Rat(1, 10))))
                 => r.risk_level = "low"

\* C3 witness: the service has classified (0.5, 0.6) as low.
C3_Witness ==
    \E r \in ServiceRiskReports :
        /\ RatEq(r.average_sentiment, Rat(1, 2))
        /\ RatEq(r.blocker_rate, Rat(6, 10))
        /\ r.risk_level = "low"

\* C4: risk_level is one pure function of (average_sentiment, blocker_rate):
\* any two reports of a user's risk with the same pair carry the same level.
C4_RiskLevelOneFunction ==
    \A r1, r2 \in risk_reports :
        (RatEq(r1.average_sentiment, r2.average_sentiment)
            /\ RatEq(r1.blocker_rate, r2.blocker_rate))
        => r1.risk_level = r2.risk_level

\* C10: every computed skill level is within 0..10 and comes with a
\* confidence within 0..1, for valid (non-negative) evidence, in both
\* skill-scoring implementations.
C10_LevelAndConfidenceBounded ==
    (user_skill.github_commits >= 0) =>
        \A r \in skill_scores :
            /\ 0 <= r.level /\ r.level <= 10000
            /\ "confidence" \in DOMAIN r
            /\ 0 <= r.confidence /\ r.confidence <= 1

ServiceSkillResults == {r \in skill_scores : r.impl = "skill_service"}

\* The record of the worked example: commits 40, reviews 10, completed 5,
\* peer rating 0.8, for a user with a GitHub account.
ExampleEvidence ==
    /\ user_skill.found /\ user_skill.github_username
    /\ user_skill.github_commits = 40 /\ user_skill.code_reviews = 10
    /\ user_skill.jira_tickets = 5 /\ user_skill.peer_reviews_score = 80

\* C11 (as stated): the level is 10 times the weighted sum of the saturated
\* signals with weights 0.35, 0.25, 0.25, 0.15 and reference volumes 100, 20,
\* 10; the worked example scores 4.7.
C11_ClaimedWeights ==
    \A r \in ServiceSkillResults :
        (user_skill.found /\ user_skill.github_commits >= 0) =>
            /\ r.level = 35 * Min(user_skill.github_commits, 100)
                         + 125 * Min(user_skill.code_reviews, 20)
                         + 250 * Min(user_skill.jira_tickets, 10)
                         + 15 * Min(user_skill.peer_reviews_score, 100)
            /\ ExampleEvidence => r.level = 4700

\* C11 (amended): the level is 10 times the sum of 0.4 * min(1, commits / 100)
\* (counted only for a user with a GitHub account), 0.3 * min(1, reviews / 50),
\* 0.2 * min(1, tickets / 20) and 0.1 * peer rating (not saturated), capped at
\* 10; signals that are not positive add nothing; the worked example scores 3.5.
C11_CodeWeights ==
    \A r \in ServiceSkillResults :
        user_skill.found =>
            /\ 100 * r.level =
                  Min(1000000,
                      (IF user_skill.github_username
                       THEN 4000 * Max(0, Min(user_skill.github_commits, 100)) ELSE 0)
                      + 6000 * Max(0, Min(user_skill.code_reviews, 50))
                      + 10000 * Max(0, Min(user_skill.jira_tickets, 20))
                      + 1000 * Max(0, user_skill.peer_reviews_score))
            /\ ExampleEvidence => r.level = 3500

\* C11 witness: the worked example has been scored, at 3.5.
C11_Witness ==
    ExampleEvidence /\ \E r \in ServiceSkillResults : r.level = 3500

ZeroEvidence ==
    \/ ~user_skill.found
    \/ /\ user_skill.github_commits = 0 /\ user_skill.code_reviews = 0
       /\ user_skill.jira_tickets = 0 /\ user_skill.peer_reviews_score = 0

\* C12: scoring a skill with zero evidence returns level 0, confidence 0 and
\* trend stable.
C12_ZeroEvidenceScore ==
    \A r \in ServiceSkillResults :
        ZeroEvidence =>
            /\ r.level = 0
            /\ "confidence" \in DOMAIN r /\ r.confidence = 0
            /\ "trend" \in DOMAIN r /\ r.trend = "stable"

\* C13: evidence with a negative value is rejected: no level is ever
\* returned for a record with a value below 0.
C13_NegativeEvidenceRejected ==
    (user_skill.found /\ user_skill.github_commits < 0) =>
        \A r \in ServiceSkillResults : "level" \notin DOMAIN r

\* Direction of the change from the window `earlier` to the window `later`
\* (both non-empty): improving iff the later average exceeds the earlier one
\* by more than threshold, declining iff it is lower by more than threshold.
Direction(earlier, later, threshold) ==
    LET delta_num == SumSeq(later) * Len(earlier) - SumSeq(earlier) * Len(later)
        bound == threshold * Len(earlier) * Len(later)
    IN IF delta_num > bound THEN "improving"
       ELSE IF delta_num < 0 - bound THEN "declining"
       ELSE "stable"

\* The claimed comparison: the earlier half against the later half.
HalvesDirection(series, threshold) ==
    LET n == Len(series)
        h == n \div 2
    IN IF h = 0 THEN "stable"
       ELSE Direction(SubSeq(series, 1, h), SubSeq(series, n - h + 1, n), threshold)

ObservedScores == [k \in DOMAIN observations |-> observations[k].score]
StoredScores == [k \in DOMAIN observations |-> StoredScore(observations[k].score)]
ApiScores == [k \in DOMAIN api_rows |-> api_rows[k].score]

Flat(series) == \A a, b \in DOMAIN series : series[a] = series[b]

\* The service's reports of an analysed, non-empty series.
ServiceTrendReports == {r \in risk_reports : r.path = "service" /\ r.message_count > 0}

\* C14 (as stated): the direction compares the earlier half with the later
\* half of the series: improving iff delta > threshold, declining iff
\* delta < -threshold, stable otherwise.
C14_EqualHalves ==
    \A r \in ServiceTrendReports :
        Len(observations) > 5 =>
            r.sentiment_trend = HalvesDirection(ObservedScores, 10)

\* C14 (amended): the service compares the last five scores with all earlier
\* ones (threshold 0.1) once there are more than five, and the skill
\* progression compares the level over `days` with the level over 2 * `days`
\* by relative change (threshold 5 percent; from level 0 any positive level is
\* improving); in both a flat series is stable.
C14_CodeWindows ==
    /\ \A r \in ServiceTrendReports :
          LET n == Len(observations)
          IN /\ n > 5 => r.sentiment_trend =
                           Direction(SubSeq(ObservedScores, 1, n - 5),
                                     SubSeq(ObservedScores, n - 4, n), 10)
             /\ Flat(ObservedScores) => r.sentiment_trend = "stable"
    /\ progression # "none" =>
          LET c == skill_levels.current_level
              p == skill_levels.previous_level
          IN /\ progression = "improving" <=>
                   ((p > 0 /\ 100 * (c - p) > 5 * p) \/ (p = 0 /\ c > 0))
             /\ progression = "declining" <=> (p > 0 /\ 100 * (p - c) > 5 * p)
             /\ progression \in {"improving", "declining", "stable"}
             /\ c = p => progression = "stable"

\* C14 witness: the service reports declining for a series whose later half
\* is above its earlier half by more than the threshold.
C14_Witness ==
    \E r \in ServiceTrendReports :
        /\ Len(observations) > 5
        /\ r.sentiment_trend = "declining"
        /\ HalvesDirection(ObservedScores, 10) = "improving"

\* C15 (as stated): a series of fewer than four samples is stable, and a
\* series of at least four samples is classified by the two-window comparison.
C15_MinimumFourSamples ==
    \A r \in risk_reports :
        /\ (r.path = "service" /\ r.message_count > 0) =>
              /\ Len(observations) < 4 => r.sentiment_trend = "stable"
              /\ Len(observations) \in 4..5 =>
                    r.sentiment_trend = HalvesDirection(ObservedScores, 10)
        /\ (r.path = "router" /\ r.message_count > 0) =>
              /\ Len(observations) < 4 => r.sentiment_trend = "stable"
              /\ Len(observations) \in 4..9 =>
                    r.sentiment_trend = HalvesDirection(StoredScores, 10)
        /\ (r.path = "api" /\ r.message_count > 0 /\ Len(api_rows) < 4) =>
              r.sentiment_trend = "stable"

\* C15 (amended): the minimum differs by path and no magnitude is reported:
\* the service reports stable up to five scores, the sentiment route up to
\* nine messages and the api route for a single daily average; from six
\* scores, ten messages and two daily averages on, the direction is the
\* comparison of that path's two windows.
C15_PathMinimums ==
    \A r \in risk_reports :
        /\ (r.path = "service" /\ r.message_count > 0) =>
              LET n == Len(observations)
              IN r.sentiment_trend =
                    IF n <= 5 THEN "stable"
                    ELSE Direction(SubSeq(ObservedScores, 1, n - 5),
                                   SubSeq(ObservedScores, n - 4, n), 10)
        /\ (r.path = "router" /\ r.message_count > 0) =>
              LET n == Len(observations)
                  h == n \div 2
              IN r.sentiment_trend =
                    IF n <= 9 THEN "stable"
                    ELSE Direction(SubSeq(StoredScores, 1, n - h),
                                   SubSeq(StoredScores, n - h + 1, n), 10)
        /\ (r.path = "api" /\ r.message_count > 0) =>
              LET n == Len(api_rows)
                  h == n \div 2
              IN r.sentiment_trend =
                    IF n <= 1 THEN "stable"
                    ELSE Direction(SubSeq(ApiScores, 1, h),
                                   SubSeq(ApiScores, h + 1, n), 10)

\* C15 witness: the service reports stable for four or five scores whose
\* halves differ by more than the threshold.
C15_Witness ==
    \E r \in ServiceTrendReports :
        /\ Len(observations) \in 4..5
        /\ r.sentiment_trend = "stable"
        /\ HalvesDirection(ObservedScores, 10) # "stable"

\* C16: every returned observation carries a source tag, "classifier" when
\* the classifier answered and "heuristic" when the fallback produced it.
C16_SourceTagged ==
    msg_pc = "returned" =>
        /\ "source" \in DOMAIN observation
        /\ observation.source \in {"classifier", "heuristic"}
        /\ observation.source = "heuristic" <=> observation = OnClassifierError(message)

\* C17: a failure of the classifier (a raised error or a malformed response)
\* never propagates out of analyze_message_sentiment: the call returns the
\* keyword-heuristic observation of the same message.
C17_FailureFallsBack ==
    /\ msg_pc \in {"create", "await", "except", "returned", "idle"}
    /\ (msg_pc = "returned" /\ response.kind \in {"raised", "malformed"}) =>
          observation = SimpleSentimentAnalysis(message)

\* C17 witness: after a malformed response the heuristic observation of a
\* message with negative and blocker keywords has been returned.
C17_Witness ==
    /\ msg_pc = "returned"
    /\ response.kind = "malformed"
    /\ message.negative_count = 2 /\ message.blocker_count = 1
    /\ observation.sentiment_score = 25
    /\ observation.has_blockers

AnalysisOf(user_id) ==
    UserAnalysis(team_communications[
        CHOOSE k \in DOMAIN team_communications :
            team_communications[k].user_id = user_id])

\* Ten times the risk score (1 - average_sentiment) * 0.7 + blocker_rate * 0.3
\* of a user's analysis.
RiskScoreOf(user_id) ==
    LET a == AnalysisOf(user_id)
    IN CombinedRisk(a.average_sentiment, a.blocker_rate)

\* at_risk_members holds exactly the users whose risk level is medium or high.
ExactlyTheAtRisk(at_risk) ==
    /\ \A k \in DOMAIN team_communications :
          AnalysisOf(team_communications[k].user_id).risk_level \in {"medium", "high"}
              <=> \E p \in DOMAIN at_risk :
                     at_risk[p].user_id = team_communications[k].user_id
    /\ \A p, q \in DOMAIN at_risk : at_risk[p].user_id = at_risk[q].user_id => p = q
    /\ \A p \in DOMAIN at_risk :
          at_risk[p].risk_level = AnalysisOf(at_risk[p].user_id).risk_level

\* C18 (as stated): at_risk_members holds exactly the medium and high
\* profiles, ordered by descending risk score.
C18_SortedByRiskScore ==
    team_report # <<>> =>
        LET at_risk == team_report[1].at_risk_members
        IN /\ ExactlyTheAtRisk(at_risk)
           /\ \A p \in 1..(Len(at_risk) - 1) :
                 ~RatLess(RiskScoreOf(at_risk[p].user_id),
                          RiskScoreOf(at_risk[p + 1].user_id))

\* C18 (amended): at_risk_members holds exactly the medium and high profiles,
\* ordered by risk level, high before medium; members of the same level keep
\* the order of their first communication, whatever their risk scores.
C18_SortedByRiskLevel ==
    team_report # <<>> =>
        LET at_risk == team_report[1].at_risk_members
        IN /\ ExactlyTheAtRisk(at_risk)
           /\ \A p \in 1..(Len(at_risk) - 1) :
                 \/ at_risk[p].risk_level = "high" /\ at_risk[p + 1].risk_level = "medium"
                 \/ /\ at_risk[p].risk_level = at_risk[p + 1].risk_level
                    /\ at_risk[p].user_id < at_risk[p + 1].user_id

\* C18 witness: a high entry is listed ahead of a medium one, and two
\* adjacent entries of the same level are listed with the strictly higher
\* risk score second.
C18_Witness ==
    /\ team_report # <<>>
    /\ LET at_risk == team_report[1].at_risk_members
       IN /\ \E p \in 1..(Len(at_risk) - 1) :
                /\ at_risk[p].risk_level = at_risk[p + 1].risk_level
                /\ RatLess(RiskScoreOf(at_risk[p].user_id),
                           RiskScoreOf(at_risk[p + 1].user_id))
          /\ \E p \in 1..(Len(at_risk) - 1) :
                /\ at_risk[p].risk_level = "high"
                /\ at_risk[p + 1].risk_level = "medium"
                /\ at_risk[p].user_id > at_risk[p + 1].user_id

\* C20: one malformed record does not abort the batch: with an unparsable
\* timestamp among several communications the others are still analysed and
\* the number of skipped records is reported.
C20_InvalidRecordSkipped ==
    (~timestamps_ok /\ Len(observations) >= 2) =>
        \A r \in risk_reports :
            r.path = "service" =>
                /\ "skipped_count" \in DOMAIN r
                /\ r.skipped_count >= 1
                /\ r.message_count + r.skipped_count = Len(observations)

\* C21: concurrent optimize runs do not interfere.  Each run's counter holds
\* exactly the assignments that run has made, whatever the other runs have
\* done in between, and a run that has returned has returned what
\* _optimize_workload_balance returns when run alone on the same
\* recommendations.
C21_RunsDoNotInterfere ==
    \A r \in DOMAIN runs :
        /\ runs[r].pc \in {"loop", "returned"} =>
              \A m \in MemberIds(team_members) :
                  run_task_counts[CounterScope(r)][m] =
                      Cardinality({k \in DOMAIN runs[r].optimized :
                          runs[r].optimized[k].assigned_to.member_id = m})
        /\ runs[r].pc = "returned" =>
              runs[r].optimized =
                  OptimizeWorkloadBalance(individual_recommendations, team_members)

\* C21 witness: one run has gone through a whole list of at least two
\* recommendations and returned while the other run was in the middle of its
\* own loop, in a roster where the load penalty decides the second choice.
C21_Witness ==
    /\ runs # <<>>
    /\ Len(individual_recommendations) >= 2
    /\ runs[1].pc = "loop"
    /\ runs[1].idx = 2
    /\ runs[2].pc = "returned"
    /\ Len(runs[2].optimized) >= 2
    /\ runs[2].optimized[1].assigned_to.member_id
          # runs[2].optimized[2].assigned_to.member_id
    /\ runs[2].optimized[2].assigned_to
          # individual_recommendations[2].recommendations[1]

\* C22: overall_score = 0.5 * skill_match + 0.3 * workload_score
\* + 0.2 * growth_score for every candidate, so that a candidate whose three
\* factors are all 1 scores exactly 1.
C22_ClaimedOverallScore ==
    \A i \in DOMAIN individual_recommendations :
        LET cands == individual_recommendations[i].recommendations
        IN \A k \in DOMAIN cands :
              /\ 10 * cands[k].overall_score =
                    5 * cands[k].skill_match + 3 * cands[k].workload_score
                        + 2 * cands[k].growth_score
              /\ OverallScore(Scale, Scale, Scale) = Scale

\* C23: a task with no inferred required skills is still recommended: it has
\* an entry in the recommendation output, and the roster members listed for
\* it are scored with skill_match = 0.5 and growth_score = 0.
C23_NoRequirementsStillRecommended ==
    (pc \in {"optimize", "done"}) =>
        \A k \in DOMAIN tasks :
            (tasks[k].assignee_id = 0
                /\ DOMAIN InferTaskRequirements(tasks[k]) = {}) =>
                \E i \in DOMAIN individual_recommendations :
                    LET rec == individual_recommendations[i]
                    IN /\ rec.task_id = tasks[k].id
                       /\ Len(rec.recommendations) = Min(3, Len(team_members))
                       /\ \A c \in DOMAIN rec.recommendations :
                             /\ 2 * rec.recommendations[c].skill_match = Scale
                             /\ rec.recommendations[c].growth_score = 0

\* C24: the fallback heuristic scores a message at
\* clamp(0.5 + 0.1 * (pos_count - neg_count), 0, 1) from the positive and
\* negative keyword counts alone; has_blockers is blocker_count > 0, the
\* confidence is the number of keyword hits in tenths capped at 1.0, and the
\* blocker keywords leave the score as it is.
C24_ClaimedHeuristic ==
    (msg_pc = "returned" /\ message.is_text) =>
        /\ observation.sentiment_score =
              Max(0, Min(100, 50 + 10 * (message.positive_count
                                          - message.negative_count)))
        /\ observation.has_blockers = (message.blocker_count > 0)
        /\ observation.confidence =
              Min(10, message.positive_count + message.negative_count
                        + message.blocker_count)

InUnitInterval(r) == r.num >= 0 /\ r.num <= r.den

\* C25: every sentiment score of analyze_message_sentiment lies in [0, 1],
\* with 0.5 for a message without any keyword: the score of the heuristic
\* for every message of the team, and the score the classifier branch builds
\* from any answered number; and so do every user's average_sentiment and the
\* team_average_sentiment of the team analysis.
C25_ScoresInUnitInterval ==
    /\ \A result \in Responses :
          result.kind = "well_formed" =>
              ClassifierResult(result).sentiment_score \in 0..100
    /\ \A k \in DOMAIN team_communications :
          \A j \in DOMAIN team_communications[k].communications :
              LET m == team_communications[k].communications[j]
                  score == AnalyzeMessageSentiment(m).sentiment_score
              IN /\ score \in 0..100
                 /\ (m.positive_count + m.negative_count + m.blocker_count = 0)
                       => score = 50
    /\ team_report # <<>> =>
          /\ InUnitInterval(team_report[1].team_average_sentiment)
          /\ \A k \in DOMAIN team_report[1].user_analyses :
                InUnitInterval(team_report[1].user_analyses[k].average_sentiment)

\* C25 witness: a team analysis in which one user's messages score 0 only
\* through the clamp (0.5 - 0.4 - 0.15 < 0), another user's messages score
\* above 0.5, and the team average lies strictly between the two.
C25_Witness ==
    /\ team_report # <<>>
    /\ \E k \in DOMAIN team_communications :
          /\ team_communications[k].timestamps_ok
          /\ team_communications[k].communications[1].negative_count = 5
          /\ team_communications[k].communications[1].blocker_count = 3
          /\ team_report[1].user_analyses[k].average_sentiment.num = 0
    /\ \E k \in DOMAIN team_report[1].user_analyses :
          RatLess(Rat(50, 100), team_report[1].user_analyses[k].average_sentiment)
    /\ RatLess(Rat(0, 1), team_report[1].team_average_sentiment)
    /\ RatLess(team_report[1].team_average_sentiment, Rat(70, 100))

\* C26: a person without observations in the window is reported with a
\* sample count of 0 and blocker_rate 0; otherwise the profile counts the
\* in-window observations and blocker_rate is the share of them that have a
\* blocker, a number in [0, 1].  Of several observations of which one has an
\* unparsable timestamp, the others are in the window and are counted.
C26_BlockerRateOverWindow ==
    \A r \in risk_reports :
        r.path = "service" =>
            LET n == Len(observations)
                b == Cardinality({k \in 1..n : observations[k].has_blockers})
            IN /\ InUnitInterval(r.blocker_rate)
               /\ n = 0 => (r.message_count = 0 /\ r.blocker_rate.num = 0)
               /\ (n > 0 /\ timestamps_ok) =>
                     (r.message_count = n /\ RatEq(r.blocker_rate, Rat(b, n)))
               /\ (n >= 2 /\ ~timestamps_ok) => r.message_count >= 1

\* The team with user k's message sent c times instead: a different message
\* count for that user, the same average.
WithMessageCount(team, k, c) ==
    [team EXCEPT ![k].communications = [j \in 1..c |-> team[k].communications[1]]]

\* C27: team_average_sentiment is the unweighted mean of the members'
\* average_sentiment values, and it stays the same when a member sends more
\* or fewer messages of the same average.
C27_UnweightedTeamAverage ==
    (team_report # <<>> /\ team_communications # <<>>) =>
        LET report == team_report[1]
            n == Len(report.user_analyses)
            total == RatSum([k \in 1..n |-> report.user_analyses[k].average_sentiment])
        IN /\ n = Len(team_communications)
           /\ RatEq(report.team_average_sentiment, Rat(total.num, total.den * n))
           /\ \A k \in 1..n : \A c \in 1..MaxUserMessages :
                 RatEq(AnalyzeTeamSentiment(
                           WithMessageCount(team_communications, k, c)
                       ).team_average_sentiment,
                       report.team_average_sentiment)

\* C27 witness: a team analysis over two members with different averages, one
\* of whom sent more messages than the other.
C27_Witness ==
    /\ team_report # <<>>
    /\ \E j, k \in DOMAIN team_communications :
          /\ team_communications[j].timestamps_ok
          /\ team_communications[k].timestamps_ok
          /\ Len(team_communications[j].communications)
                < Len(team_communications[k].communications)
          /\ ~RatEq(team_report[1].user_analyses[j].average_sentiment,
                    team_report[1].user_analyses[k].average_sentiment)
          /\ ~RatEq(team_report[1].team_average_sentiment,
                    TeamAverage_MessageWeighted(team_report[1].user_analyses))

\* C28: the optimize pass never drops a task: when the pass is over, every
\* recommendation that lists at least one candidate has exactly one entry in
\* the optimized allocation, however many tasks its candidates already hold.
C28_NoTaskDropped ==
    (pc = "done") =>
        \A i \in DOMAIN individual_recommendations :
            individual_recommendations[i].recommendations # <<>> =>
                Cardinality({k \in DOMAIN optimized :
                    optimized[k].task_id = individual_recommendations[i].task_id}) = 1

\* C29: in the response of /allocate the optimized allocation is consistent
\* with the recommendations returned beside it: the member assigned to a task
\* is one of the candidates listed for that task in "recommendations", with
\* the same overall_score.
C29_ResponseConsistent ==
    (pc = "done" /\ call = 2) =>
        \A k \in DOMAIN optimized :
            \E i \in DOMAIN route_recommendations :
                /\ route_recommendations[i].task_id = optimized[k].task_id
                /\ \E c \in DOMAIN route_recommendations[i].recommendations :
                      LET listed == route_recommendations[i].recommendations[c]
                      IN /\ listed.member_id = optimized[k].assigned_to.member_id
                         /\ listed.overall_score = optimized[k].assigned_to.overall_score

====
